---- MODULE Spec2Model ----
(***************************************************************************)
(* A model of pac-human (src/main.rs): a Bevy 0.9 game in which a square   *)
(* player moves inside a walled arena and eats periodically spawned        *)
(* enemies.                                                                *)
(*                                                                         *)
(* Lengths.  The source computes with f32 pixels.  The model computes with *)
(* exact integers whose unit is TIME_STEP pixels (1/60 px), so that        *)
(* `speed * TIME_STEP` is a whole number of units; f32 rounding is not     *)
(* modelled.  Px(p) converts a pixel literal of the source to units.       *)
(*                                                                         *)
(* Time.  Wall-clock time is abstracted: whether the physics timer and     *)
(* the spawner timer are due in a frame is a nondeterministic input.       *)
(***************************************************************************)
EXTENDS Integers, Sequences, FiniteSets, TLC

(***************************************************************************)
(* Program constants (main.rs:5-34), in pixels and pixels per second.      *)
(***************************************************************************)
\* TIME_STEP = 1.0 / 60.0 seconds: the number of physics steps per second.
TIME_STEP_INV == 60
PACMAN_SIZE_X == 60
PACMAN_SIZE_Y == 60
GAP_BETWEEN_PACMAN_AND_FLOOR == 60
PACMAN_SPEED == 500
PACMAN_PADDING == 10
WALL_THICKNESS == 10
LEFT_WALL == -450
RIGHT_WALL == 450
BOTTOM_WALL == -300
TOP_WALL == 300
ENEMY_SIZE_X == 30
ENEMY_SIZE_Y == 30

\* A pixel quantity of the source in model units.
Px(p) == p * TIME_STEP_INV

\* `v * TIME_STEP` for a velocity v in pixels per second, in model units.
TimesTimeStep(v) == v

Vec2(vx, vy) == [x |-> vx, y |-> vy]

(***************************************************************************)
(* Bounds of the exploration.                                              *)
(***************************************************************************)
\* Physics ticks explored by the fine-grained specification Spec.
MaxTicks == 4
\* Spawner firings explored by Spec.
MaxSpawns == 2
\* The values (pixels) the random-range primitive is sampled at.  One lies
\* below each range and one is its excluded upper end: gen_range must
\* filter both.  An enemy at (0, -195) touches the player's start box along
\* an edge without overlapping it.
SampleXs == {-451, 0, 450}
SampleYs == {-301, -195, 300}
\* Unread events play_collision_sound is applied to in SpecSound.
MaxPending == 3
\* The largest score the scoreboard specification starts from.
MaxScore == 120

(***************************************************************************)
(* Entities and components.  `world` maps each live entity to its          *)
(* components: Transform (translation, scale), the markers Pacman,         *)
(* Collider and Enemy, and an optional Velocity (<<>> when absent).        *)
(***************************************************************************)
VARIABLES
    world,          \* entity id -> components
    next_entity,    \* the id the next spawned entity receives
    score,          \* Scoreboard.score
    text,           \* value of the second text section of the scoreboard
    events_a,       \* Events<CollisionEvent>: events of the previous frame
    events_b,       \* Events<CollisionEvent>: events of the current frame
    unread,         \* events sent since play_collision_sound's reader last read
    audio_queue,    \* sounds handed to Audio and not yet output
    commands,       \* deferred Commands of the systems of the current pass
    panicked,       \* a system aborted the process (query.single failed)
    sched,          \* systems the current pass of the stage runs
    ran,            \* systems of the current pass that have run
    ticks           \* physics ticks started

vars == <<world, next_entity, score, text, events_a, events_b, unread,
          audio_queue, commands, panicked, sched, ran, ticks>>

KeyCodes == {"Left", "Right", "Down", "Up"}
KeySets == SUBSET KeyCodes

WallLocation == {"Left", "Right", "Bottom", "Top"}

\* WallLocation::position
WallPosition(loc) ==
    CASE loc = "Left"   -> Vec2(Px(LEFT_WALL), 0)
      [] loc = "Right"  -> Vec2(Px(RIGHT_WALL), 0)
      [] loc = "Bottom" -> Vec2(0, Px(BOTTOM_WALL))
      [] loc = "Top"    -> Vec2(0, Px(TOP_WALL))

\* WallLocation::size
WallSize(loc) ==
    LET arena_height == TOP_WALL - BOTTOM_WALL
        arena_width  == RIGHT_WALL - LEFT_WALL
    IN  IF loc \in {"Left", "Right"}
        THEN Vec2(Px(WALL_THICKNESS), Px(arena_height + WALL_THICKNESS))
        ELSE Vec2(Px(arena_width + WALL_THICKNESS), Px(WALL_THICKNESS))

\* WallBundle::new
WallBundle(loc) ==
    [translation |-> WallPosition(loc), scale |-> WallSize(loc),
     pacman |-> FALSE, collider |-> TRUE, enemy |-> FALSE, velocity |-> <<>>]

\* The bundle setup spawns for the player.
PacmanBundle ==
    LET pacman_y == BOTTOM_WALL + GAP_BETWEEN_PACMAN_AND_FLOOR
    IN  [translation |-> Vec2(0, Px(pacman_y)),
         scale |-> Vec2(Px(PACMAN_SIZE_X), Px(PACMAN_SIZE_Y)),
         pacman |-> TRUE, collider |-> TRUE, enemy |-> FALSE, velocity |-> <<>>]

\* Entity ids in the order setup spawns them.
PacmanEntity == 1
WallEntity(loc) ==
    CASE loc = "Left" -> 2 [] loc = "Right" -> 3 [] loc = "Bottom" -> 4 [] loc = "Top" -> 5
FirstEnemyEntity == 6

\* setup: the player and the four walls.
setup ==
    [e \in {PacmanEntity} \cup {WallEntity(loc) : loc \in WallLocation} |->
        IF e = PacmanEntity THEN PacmanBundle
        ELSE WallBundle(CHOOSE loc \in WallLocation : WallEntity(loc) = e)]

NoCommands == [spawn |-> <<>>, despawn |-> {}]

(***************************************************************************)
(* The state the systems act on, as one record, so that systems compose.   *)
(***************************************************************************)
State ==
    [world |-> world, next_entity |-> next_entity, score |-> score,
     text |-> text, events_a |-> events_a, events_b |-> events_b,
     unread |-> unread, audio_queue |-> audio_queue, commands |-> commands,
     panicked |-> panicked]

\* The variables take the values of state record s.
Becomes(s) ==
    /\ world' = s.world
    /\ next_entity' = s.next_entity
    /\ score' = s.score
    /\ text' = s.text
    /\ events_a' = s.events_a
    /\ events_b' = s.events_b
    /\ unread' = s.unread
    /\ audio_queue' = s.audio_queue
    /\ commands' = s.commands
    /\ panicked' = s.panicked

\* Query<_, With<Pacman>>
pacman_query(w) == {e \in DOMAIN w : w[e].pacman}
\* Query<_, With<Collider>>
collider_query(w) == {e \in DOMAIN w : w[e].collider}

\* Query::single and single_mut abort unless exactly one entity matches.
single_ok(q) == Cardinality(q) = 1

\* A clamp that forgets the lower bound.
clamp_no_floor(v, lo, hi) == IF v > hi THEN hi ELSE v

\* f32::clamp
clamp(v, lo, hi) == IF v < lo THEN lo ELSE IF v > hi THEN hi ELSE v

\* The left bound with the signs of bottom_bound.
left_bound_outside ==
    Px(LEFT_WALL) - Px(WALL_THICKNESS) \div 2 - Px(PACMAN_SIZE_X) \div 2 - Px(PACMAN_PADDING)

left_bound ==
    Px(LEFT_WALL) + Px(WALL_THICKNESS) \div 2 + Px(PACMAN_SIZE_X) \div 2 + Px(PACMAN_PADDING)
\* The right bound without the padding.
right_bound_no_padding ==
    Px(RIGHT_WALL) - Px(WALL_THICKNESS) \div 2 - Px(PACMAN_SIZE_X) \div 2

right_bound ==
    Px(RIGHT_WALL) - Px(WALL_THICKNESS) \div 2 - Px(PACMAN_SIZE_X) \div 2 - Px(PACMAN_PADDING)
up_bound ==
    Px(TOP_WALL) + Px(WALL_THICKNESS) \div 2 + Px(PACMAN_SIZE_Y) \div 2 + Px(PACMAN_PADDING)
bottom_bound ==
    Px(BOTTOM_WALL) - Px(WALL_THICKNESS) \div 2 - Px(PACMAN_SIZE_Y) \div 2 - Px(PACMAN_PADDING)

\* x_direction with the test of Right before the test of Left.
x_direction_right_first(keys) ==
    IF "Right" \in keys THEN 1 ELSE IF "Left" \in keys THEN -1 ELSE 0

x_direction(keys) ==
    IF "Left" \in keys THEN -1 ELSE IF "Right" \in keys THEN 1 ELSE 0
y_direction(keys) ==
    IF "Down" \in keys THEN -1 ELSE IF "Up" \in keys THEN 1 ELSE 0

\* The translation move_pacman writes, from the old one and the keys held.
new_pacman_position(t, keys) ==
    LET new_pacman_x_position == t.x + x_direction(keys) * TimesTimeStep(PACMAN_SPEED)
        new_pacman_y_position == t.y + y_direction(keys) * TimesTimeStep(PACMAN_SPEED)
    IN  Vec2(clamp(new_pacman_x_position, left_bound, right_bound),
             clamp(new_pacman_y_position, bottom_bound, up_bound))

\* move_pacman, with the keys the input resource reports as held.
move_pacman(s, keys) ==
    IF ~single_ok(pacman_query(s.world))
    THEN [s EXCEPT !.panicked = TRUE]
    ELSE LET p == CHOOSE e \in pacman_query(s.world) : TRUE
         IN  [s EXCEPT !.world[p].translation =
                           new_pacman_position(s.world[p].translation, keys)]

\* apply_velocity: every entity with a Velocity advances by velocity * TIME_STEP.
apply_velocity(s) ==
    [s EXCEPT !.world =
        [e \in DOMAIN s.world |->
            IF Len(s.world[e].velocity) > 0
            THEN [s.world[e] EXCEPT
                    !.translation = Vec2(@.x + TimesTimeStep(s.world[e].velocity[1]),
                                         @.y + TimesTimeStep(s.world[e].velocity[2]))]
            ELSE s.world[e]]]

\* bevy::sprite::collide_aabb::collide(..).is_some(): the boxes centred at
\* a_pos and b_pos with sizes a_size and b_size intersect with non-zero area.
collide(a_pos, a_size, b_pos, b_size) ==
    /\ a_pos.x - a_size.x \div 2 < b_pos.x + b_size.x \div 2    \* a_min.x < b_max.x
    /\ a_pos.x + a_size.x \div 2 > b_pos.x - b_size.x \div 2    \* a_max.x > b_min.x
    /\ a_pos.y - a_size.y \div 2 < b_pos.y + b_size.y \div 2    \* a_min.y < b_max.y
    /\ a_pos.y + a_size.y \div 2 > b_pos.y - b_size.y \div 2    \* a_max.y > b_min.y

\* The colliders check_for_collisions finds in collision with the player.
colliding(w, p) ==
    {e \in collider_query(w) :
        collide(w[p].translation, w[p].scale, w[e].translation, w[e].scale)}

\* check_for_collisions treating a wall as it treats an enemy: every collider
\* in collision other than the player is scored and despawned.
check_for_collisions_walls_eaten(s) ==
    IF ~single_ok(pacman_query(s.world))
    THEN [s EXCEPT !.panicked = TRUE]
    ELSE LET p    == CHOOSE e \in pacman_query(s.world) : TRUE
             hits == colliding(s.world, p)
             eaten == {e \in hits : ~s.world[e].pacman}
         IN  [s EXCEPT !.events_b = @ + Cardinality(hits),
                       !.unread = @ + Cardinality(hits),
                       !.score = @ + Cardinality(eaten),
                       !.commands.despawn = @ \cup eaten]

\* check_for_collisions despawning every collider in collision, enemy or not.
check_for_collisions_despawn_all(s) ==
    IF ~single_ok(pacman_query(s.world))
    THEN [s EXCEPT !.panicked = TRUE]
    ELSE LET p    == CHOOSE e \in pacman_query(s.world) : TRUE
             hits == colliding(s.world, p)
             eaten == {e \in hits : s.world[e].enemy}
         IN  [s EXCEPT !.events_b = @ + Cardinality(hits),
                       !.unread = @ + Cardinality(hits),
                       !.score = @ + Cardinality(eaten),
                       !.commands.despawn = @ \cup hits]

\* check_for_collisions despawning every other collider in collision, wall or enemy.
check_for_collisions_despawn_others(s) ==
    IF ~single_ok(pacman_query(s.world))
    THEN [s EXCEPT !.panicked = TRUE]
    ELSE LET p    == CHOOSE e \in pacman_query(s.world) : TRUE
             hits == colliding(s.world, p)
             eaten == {e \in hits : s.world[e].enemy}
         IN  [s EXCEPT !.events_b = @ + Cardinality(hits),
                       !.unread = @ + Cardinality(hits),
                       !.score = @ + Cardinality(eaten),
                       !.commands.despawn = @ \cup (hits \ {p})]

\* check_for_collisions scoring an enemy without despawning it.
check_for_collisions_no_despawn(s) ==
    IF ~single_ok(pacman_query(s.world))
    THEN [s EXCEPT !.panicked = TRUE]
    ELSE LET p    == CHOOSE e \in pacman_query(s.world) : TRUE
             hits == colliding(s.world, p)
             eaten == {e \in hits : s.world[e].enemy}
         IN  [s EXCEPT !.events_b = @ + Cardinality(hits),
                       !.unread = @ + Cardinality(hits),
                       !.score = @ + Cardinality(eaten)]

\* check_for_collisions scoring every collision, enemy or not.
check_for_collisions_score_all_hits(s) ==
    IF ~single_ok(pacman_query(s.world))
    THEN [s EXCEPT !.panicked = TRUE]
    ELSE LET p    == CHOOSE e \in pacman_query(s.world) : TRUE
             hits == colliding(s.world, p)
             eaten == {e \in hits : s.world[e].enemy}
         IN  [s EXCEPT !.events_b = @ + Cardinality(hits),
                       !.unread = @ + Cardinality(hits),
                       !.score = @ + Cardinality(hits),
                       !.commands.despawn = @ \cup eaten]

\* check_for_collisions: one event per collision; an enemy in collision is
\* scored and its despawn is queued.
check_for_collisions(s) ==
    IF ~single_ok(pacman_query(s.world))
    THEN [s EXCEPT !.panicked = TRUE]
    ELSE LET p    == CHOOSE e \in pacman_query(s.world) : TRUE
             hits == colliding(s.world, p)
             eaten == {e \in hits : s.world[e].enemy}
         IN  [s EXCEPT !.events_b = @ + Cardinality(hits),
                       !.unread = @ + Cardinality(hits),
                       !.score = @ + Cardinality(eaten),
                       !.commands.despawn = @ \cup eaten]

\* EventReader::len: the events the reader has not read and that still exist.
reader_len(s) ==
    IF s.unread < s.events_a + s.events_b THEN s.unread ELSE s.events_a + s.events_b

\* play_collision_sound without the call of clear.
play_collision_sound_no_clear(s) ==
    IF reader_len(s) # 0
    THEN [s EXCEPT !.audio_queue = @ + 1]
    ELSE s

\* play_collision_sound reading one event where it clears the reader.
play_collision_sound_read_one(s) ==
    IF reader_len(s) # 0
    THEN [s EXCEPT !.unread = @ - 1, !.audio_queue = @ + 1]
    ELSE s

\* play_collision_sound
play_collision_sound(s) ==
    IF reader_len(s) # 0
    THEN [s EXCEPT !.unread = 0, !.audio_queue = @ + 1]
    ELSE s

\* A range that includes its upper end (lo..=hi).
gen_range_inclusive(samples, lo, hi) == {v \in samples : lo <= v /\ v <= hi}

\* Rng::gen_range(lo..hi) on the sampled values: lo <= v < hi.
gen_range(samples, lo, hi) == {v \in samples : lo <= v /\ v < hi}

\* The bundle spawn_enemy spawns at (x, y) pixels.
EnemyBundle(x, y) ==
    [translation |-> Vec2(Px(x), Px(y)),
     scale |-> Vec2(Px(ENEMY_SIZE_X), Px(ENEMY_SIZE_Y)),
     pacman |-> FALSE, collider |-> TRUE, enemy |-> TRUE, velocity |-> <<>>]

\* spawn_enemy, with the two random draws x and y.
spawn_enemy(s, x, y) ==
    [s EXCEPT !.commands.spawn = Append(@, EnemyBundle(x, y))]

\* usize::to_string: the decimal digits of n.
Digit(d) == <<"0", "1", "2", "3", "4", "5", "6", "7", "8", "9">>[d + 1]
RECURSIVE to_string(_)
to_string(n) == IF n < 10 THEN <<Digit(n)>> ELSE Append(to_string(n \div 10), Digit(n % 10))

\* update_scoreboard pushing the digits onto the text it finds.
update_scoreboard_push_str(s) == [s EXCEPT !.text = @ \o to_string(s.score)]

\* update_scoreboard
update_scoreboard(s) == [s EXCEPT !.text = to_string(s.score)]

\* The stage applies the systems' command buffers: despawns and spawns.
RECURSIVE spawn_all(_, _, _)
spawn_all(w, n, bundles) ==
    IF bundles = <<>> THEN w
    ELSE spawn_all([e \in DOMAIN w \cup {n} |-> IF e = n THEN Head(bundles) ELSE w[e]],
                   n + 1, Tail(bundles))

apply_buffers(s) ==
    LET kept == [e \in DOMAIN s.world \ s.commands.despawn |-> s.world[e]]
    IN  [s EXCEPT !.world = spawn_all(kept, s.next_entity, s.commands.spawn),
                  !.next_entity = @ + Len(s.commands.spawn),
                  !.commands = NoCommands]

\* Events::update_system (stage First): the buffers swap and the new current
\* buffer is cleared.
events_update(s) == [s EXCEPT !.events_a = s.events_b, !.events_b = 0]

\* The audio output system (stage PostUpdate) takes every queued sound.
play_queued_audio(s) == [s EXCEPT !.audio_queue = 0]

(***************************************************************************)
(* The schedule (main.rs:36-59).  A frame runs stage First (the event      *)
(* buffers swap), then the passes of stage Update.  The first pass runs    *)
(* the systems without run criteria and those whose FixedTimestep          *)
(* criterion is due; FixedTimestep answers YesAndCheckAgain, so the stage  *)
(* applies the command buffers and runs another pass for the criteria      *)
(* that are still due, until none is.  A criterion that was not due in a   *)
(* pass is not asked again in that frame.                                  *)
(***************************************************************************)
PhysicsSystems ==
    {"move_pacman", "apply_velocity", "check_for_collisions", "play_collision_sound"}
SpawnerSystems == {"spawn_enemy"}
DefaultSystems == {"update_scoreboard"}

\* The set's systems with no ordering between them.
Before_unordered(name) == {}

\* .before(..) and .after(..): the systems that must finish before `name` starts.
Before(name) ==
    CASE name = "check_for_collisions" -> {"move_pacman", "apply_velocity"}
      [] name = "play_collision_sound" -> {"check_for_collisions"}
      [] OTHER -> {}

Due(physics, spawner) ==
    (IF physics THEN PhysicsSystems ELSE {}) \cup (IF spawner THEN SpawnerSystems ELSE {})

Runnable(name) ==
    /\ ~panicked
    /\ name \in sched \ ran
    /\ (Before(name) \cap sched) \subseteq ran

\* System `name` runs to completion and leaves the state s.
Ran(name, s) ==
    /\ Becomes(s)
    /\ ran' = ran \cup {name}
    /\ UNCHANGED <<sched, ticks>>

Spawned(s) == s.next_entity - FirstEnemyEntity + Len(s.commands.spawn)

BeginFrame(physics, spawner) ==
    /\ ~panicked
    /\ sched = {}
    /\ physics => ticks < MaxTicks
    /\ spawner => Spawned(State) < MaxSpawns
    /\ Becomes(events_update(State))
    /\ sched' = DefaultSystems \cup Due(physics, spawner)
    /\ ran' = {}
    /\ ticks' = IF physics THEN ticks + 1 ELSE ticks

LoopPass(physics, spawner) ==
    /\ ~panicked
    /\ sched # {}
    /\ ran = sched
    /\ physics \/ spawner
    /\ Due(physics, spawner) \subseteq sched
    /\ physics => ticks < MaxTicks
    /\ spawner => Spawned(State) < MaxSpawns
    /\ Becomes(apply_buffers(State))
    /\ sched' = Due(physics, spawner)
    /\ ran' = {}
    /\ ticks' = IF physics THEN ticks + 1 ELSE ticks

EndFrame ==
    /\ ~panicked
    /\ sched # {}
    /\ ran = sched
    /\ Becomes(play_queued_audio(apply_buffers(State)))
    /\ sched' = {}
    /\ ran' = {}
    /\ UNCHANGED ticks

MovePacmanWith(keys) ==
    /\ Runnable("move_pacman")
    /\ Ran("move_pacman", move_pacman(State, keys))

MovePacman == \E keys \in KeySets : MovePacmanWith(keys)

ApplyVelocity ==
    /\ Runnable("apply_velocity")
    /\ Ran("apply_velocity", apply_velocity(State))

CheckForCollisions ==
    /\ Runnable("check_for_collisions")
    /\ Ran("check_for_collisions", check_for_collisions(State))

PlayCollisionSound ==
    /\ Runnable("play_collision_sound")
    /\ Ran("play_collision_sound", play_collision_sound(State))

SpawnEnemyAt(x, y) ==
    /\ Runnable("spawn_enemy")
    /\ Ran("spawn_enemy", spawn_enemy(State, x, y))

SpawnEnemy ==
    \E x \in gen_range(SampleXs, LEFT_WALL, RIGHT_WALL) :
        \E y \in gen_range(SampleYs, BOTTOM_WALL, TOP_WALL) : SpawnEnemyAt(x, y)

UpdateScoreboard ==
    /\ Runnable("update_scoreboard")
    /\ Ran("update_scoreboard", update_scoreboard(State))

Init ==
    /\ world = setup
    /\ next_entity = FirstEnemyEntity
    /\ score = 0
    /\ text = <<>>
    /\ events_a = 0
    /\ events_b = 0
    /\ unread = 0
    /\ audio_queue = 0
    /\ commands = NoCommands
    /\ panicked = FALSE
    /\ sched = {}
    /\ ran = {}
    /\ ticks = 0

Next ==
    \/ \E physics \in BOOLEAN, spawner \in BOOLEAN : BeginFrame(physics, spawner)
    \/ \E physics \in BOOLEAN, spawner \in BOOLEAN : LoopPass(physics, spawner)
    \/ EndFrame
    \/ MovePacman
    \/ ApplyVelocity
    \/ CheckForCollisions
    \/ PlayCollisionSound
    \/ SpawnEnemy
    \/ UpdateScoreboard

Spec == Init /\ [][Next]_vars

(***************************************************************************)
(* The long run.  SpecRun explores frames of one pass with one physics     *)
(* tick each, every frame as one step, with no bound on the number of      *)
(* ticks: the whole set of positions the player can reach.  The spawner    *)
(* is never due in it.                                                     *)
(***************************************************************************)
\* One physics tick: the four systems in an order the schedule allows.
physics_tick(s, keys) ==
    play_collision_sound(check_for_collisions(apply_velocity(move_pacman(s, keys))))

\* A frame whose only pass runs one physics tick and update_scoreboard.  No
\* enemy exists in this specification, so the score does not change and
\* the order of update_scoreboard and the tick makes no difference.
run_frame(s, keys) ==
    play_queued_audio(apply_buffers(update_scoreboard(physics_tick(events_update(s), keys))))

RunTickWith(keys) ==
    /\ ~panicked
    /\ sched = {}
    /\ Becomes(run_frame(State, keys))
    /\ UNCHANGED <<sched, ran, ticks>>

RunTick == \E keys \in KeySets : RunTickWith(keys)

SpecRun == Init /\ [][RunTick]_vars

(***************************************************************************)
(* play_collision_sound alone.  SpecSound applies the system to every      *)
(* number of unread events up to MaxPending, the player at the positions   *)
(* of its first tick and the other systems of the pass already run.        *)
(***************************************************************************)
SoundOffsets == {-TimesTimeStep(PACMAN_SPEED), 0, TimesTimeStep(PACMAN_SPEED)}

InitSound ==
    /\ \E dx \in SoundOffsets, dy \in SoundOffsets :
          world = [setup EXCEPT ![PacmanEntity].translation = Vec2(@.x + dx, @.y + dy)]
    /\ next_entity = FirstEnemyEntity
    /\ score = 0
    /\ text = to_string(0)
    /\ events_a \in 0..MaxPending
    /\ unread \in 0..MaxPending
    /\ events_b = unread
    /\ audio_queue = 0
    /\ commands = NoCommands
    /\ panicked = FALSE
    /\ sched = DefaultSystems \cup PhysicsSystems
    /\ ran = sched \ {"play_collision_sound"}
    /\ ticks = 1

SpecSound == InitSound /\ [][PlayCollisionSound]_vars

(***************************************************************************)
(* update_scoreboard alone.  SpecBoard starts between two frames with      *)
(* every score up to MaxScore, all the enemies spawned so far eaten, the   *)
(* text showing the score or the score before the last enemy was eaten,    *)
(* and runs frames in which no FixedTimestep criterion is due.             *)
(***************************************************************************)
InitBoard ==
    /\ world = setup
    /\ score \in 0..MaxScore
    /\ next_entity = FirstEnemyEntity + score
    /\ \E shown \in {n \in 0..score : score - n <= 1} : text = to_string(shown)
    /\ events_a = 1
    /\ events_b = 1
    /\ unread = 0
    /\ audio_queue = 0
    /\ commands = NoCommands
    /\ panicked = FALSE
    /\ sched = {}
    /\ ran = {}
    /\ ticks = 0

NextBoard ==
    \/ BeginFrame(FALSE, FALSE)
    \/ UpdateScoreboard
    \/ EndFrame

SpecBoard == InitBoard /\ [][NextBoard]_vars

(***************************************************************************)
(* Vocabulary of the properties.                                           *)
(***************************************************************************)
Abs(v) == IF v < 0 THEN -v ELSE v

\* The boxes of components a and b overlap with non-zero area.
Overlaps(a, b) ==
    /\ 2 * Abs(a.translation.x - b.translation.x) < a.scale.x + b.scale.x
    /\ 2 * Abs(a.translation.y - b.translation.y) < a.scale.y + b.scale.y

Player == world[PacmanEntity]
Enemies(w) == {e \in DOMAIN w : w[e].enemy}
Walls(w) == {e \in DOMAIN w : w[e].collider /\ ~w[e].enemy /\ ~w[e].pacman}

\* The enemies and the colliders whose box overlaps the player's.
OverlappingEnemies == {e \in Enemies(world) : Overlaps(Player, world[e])}
OverlappingColliders == {e \in DOMAIN world : world[e].collider /\ Overlaps(Player, world[e])}

\* This step is a run of system `name`.
Runs(name) == name \in ran' /\ name \notin ran
\* This step ends a pass of the stage: the command buffers are applied.
PassEnds == sched # {} /\ ran = sched /\ ran' = {}

(***************************************************************************)
(* C1.  In every reachable state the player's box lies inside the region   *)
(* enclosed by the inner faces of the four walls, at least the padding     *)
(* away from each face, on both axes.                                      *)
(***************************************************************************)
C1_PlayerInsideArena ==
    LET t == Player.translation
        half_x == Px(PACMAN_SIZE_X) \div 2
        half_y == Px(PACMAN_SIZE_Y) \div 2
        face == Px(WALL_THICKNESS) \div 2
    IN  /\ t.x - half_x >= Px(LEFT_WALL) + face + Px(PACMAN_PADDING)
        /\ t.x + half_x <= Px(RIGHT_WALL) - face - Px(PACMAN_PADDING)
        /\ t.y - half_y >= Px(BOTTOM_WALL) + face + Px(PACMAN_PADDING)
        /\ t.y + half_y <= Px(TOP_WALL) - face - Px(PACMAN_PADDING)

(***************************************************************************)
(* C2.  In every reachable state, whatever keys were held at each tick,    *)
(* the player's position satisfies left_bound <= x <= right_bound and      *)
(* bottom_bound <= y <= up_bound, the bounds move_pacman clamps to.        *)
(***************************************************************************)
C2_PositionWithinClampBounds ==
    /\ left_bound <= Player.translation.x
    /\ Player.translation.x <= right_bound
    /\ bottom_bound <= Player.translation.y
    /\ Player.translation.y <= up_bound

\* Sustained input has driven the player into the corner of its bounds.
C2_Witness ==
    /\ Player.translation = Vec2(right_bound, up_bound)
    /\ events_b > 0

(***************************************************************************)
(* C3.  A run of check_for_collisions in which the player's box is         *)
(* disjoint from the box of every wall and every enemy sends no event      *)
(* and leaves the score and the enemies as they were.                      *)
(***************************************************************************)
C3_NoEventWhenDisjoint ==
    [][(/\ Runs("check_for_collisions")
        /\ \A e \in Walls(world) \cup Enemies(world) : ~Overlaps(Player, world[e]))
       => /\ events_b' = events_b
          /\ unread' = unread
          /\ score' = score
          /\ world' = world
          /\ commands'.despawn = commands.despawn]_vars

(***************************************************************************)
(* C4.  A run of check_for_collisions sends exactly one event for each     *)
(* collider overlapping the player, scores exactly 1 for each overlapping  *)
(* enemy and queues the despawn of exactly those enemies; the end of the   *)
(* pass removes them; an entity once removed never returns, so no later    *)
(* tick tests it.                                                          *)
(***************************************************************************)
C4_EnemyCollision ==
    [][/\ Runs("check_for_collisions") =>
            /\ events_b' = events_b + Cardinality(OverlappingColliders)
            /\ unread' = unread + Cardinality(OverlappingColliders)
            /\ score' = score + Cardinality(OverlappingEnemies)
            /\ commands'.despawn = commands.despawn \cup OverlappingEnemies
       /\ PassEnds => DOMAIN world' \cap commands.despawn = {}
       /\ \A e \in 1..(next_entity - 1) : e \notin DOMAIN world => e \notin DOMAIN world'
       /\ \A e \in Enemies(world) \ DOMAIN world' : e \in commands.despawn]_vars

\* Two enemies overlapped the player in one tick and both despawns are queued.
C4_Witness ==
    /\ "check_for_collisions" \in ran
    /\ Cardinality(commands.despawn) = 2
    /\ score = 2

(***************************************************************************)
(* C5.  The score starts at 0; every step leaves it unchanged or raises    *)
(* it; only check_for_collisions raises it, by exactly 1 for each enemy    *)
(* overlapping the player.                                                 *)
(***************************************************************************)
C5_ScoreMonotone ==
    /\ score = 0
    /\ [][/\ score' >= score
          /\ score' # score =>
                /\ Runs("check_for_collisions")
                /\ score' = score + Cardinality(OverlappingEnemies)]_vars

\* The score has been raised twice, one tick after the other.
C5_Witness ==
    /\ score = 2
    /\ Cardinality(commands.despawn) = 1
    /\ Enemies(world) = commands.despawn

(***************************************************************************)
(* C6.  A run of play_collision_sound with one or more unread events       *)
(* queues the sound exactly once and leaves no unread event; a run with    *)
(* no unread event queues nothing; no step queues more than one sound,     *)
(* and none queues a sound without an unread event.                        *)
(***************************************************************************)
C6_SoundOncePerTick ==
    [][/\ Runs("play_collision_sound") =>
            /\ unread > 0 => audio_queue' = audio_queue + 1
            /\ unread = 0 => audio_queue' = audio_queue
            /\ unread' = 0
            /\ events_a' = events_a /\ events_b' = events_b
       /\ audio_queue' <= audio_queue + 1
       /\ audio_queue' # audio_queue => Runs("play_collision_sound") /\ unread > 0]_vars

\* Three events were sent in the tick, and the sound was queued once.
C6_Witness ==
    /\ "play_collision_sound" \in ran
    /\ events_b = 3
    /\ unread = 0
    /\ audio_queue = 1

(***************************************************************************)
(* C7.  In every reachable state exactly one entity carries the Pacman     *)
(* marker, and no system has aborted on its query for the player.          *)
(***************************************************************************)
C7_ExactlyOnePlayer ==
    /\ Cardinality({e \in DOMAIN world : world[e].pacman}) = 1
    /\ ~panicked

\* An enemy was eaten and removed, and the player, which overlaps itself
\* in every tick, is still there.
C7_Witness ==
    /\ score > 0
    /\ Enemies(world) = {}
    /\ sched = {}
    /\ PacmanEntity \in DOMAIN world

(***************************************************************************)
(* C8.  In every reachable state exactly four walls exist, one at each     *)
(* side, with the position and the size setup gave them.                   *)
(***************************************************************************)
C8_FourWalls ==
    /\ Walls(world) = {WallEntity(loc) : loc \in WallLocation}
    /\ Cardinality(Walls(world)) = 4
    /\ world[WallEntity("Left")].translation = Vec2(Px(-450), 0)
    /\ world[WallEntity("Right")].translation = Vec2(Px(450), 0)
    /\ world[WallEntity("Bottom")].translation = Vec2(0, Px(-300))
    /\ world[WallEntity("Top")].translation = Vec2(0, Px(300))
    /\ world[WallEntity("Left")].scale = Vec2(Px(10), Px(610))
    /\ world[WallEntity("Right")].scale = Vec2(Px(10), Px(610))
    /\ world[WallEntity("Bottom")].scale = Vec2(Px(910), Px(10))
    /\ world[WallEntity("Top")].scale = Vec2(Px(910), Px(10))

\* The player overlapped the bottom wall in a tick whose pass has ended.
C8_Witness ==
    /\ sched = {}
    /\ Overlaps(Player, world[WallEntity("Bottom")])
    /\ events_b >= 2

(***************************************************************************)
(* C9.  A run of spawn_enemy queues exactly one bundle, an enemy with the  *)
(* collider marker at -450 <= x < 450 and -300 <= y < 300, and changes     *)
(* nothing else; the end of the pass adds exactly the queued bundles as    *)
(* new entities and leaves every entity that is not despawned as it was.   *)
(***************************************************************************)
C9_SpawnOneEnemy ==
    [][/\ Runs("spawn_enemy") =>
            /\ Len(commands'.spawn) = Len(commands.spawn) + 1
            /\ SubSeq(commands'.spawn, 1, Len(commands.spawn)) = commands.spawn
            /\ LET b == commands'.spawn[Len(commands'.spawn)]
               IN  /\ b.enemy /\ b.collider /\ ~b.pacman
                   /\ Px(-450) <= b.translation.x /\ b.translation.x < Px(450)
                   /\ Px(-300) <= b.translation.y /\ b.translation.y < Px(300)
            /\ commands'.despawn = commands.despawn
            /\ UNCHANGED <<world, next_entity, score, text, events_a, events_b,
                           unread, audio_queue, panicked>>
       /\ PassEnds =>
            /\ DOMAIN world' \ DOMAIN world =
                  {next_entity + i - 1 : i \in 1..Len(commands.spawn)}
            /\ \A i \in 1..Len(commands.spawn) :
                  world'[next_entity + i - 1] = commands.spawn[i]
            /\ \A e \in DOMAIN world \ commands.despawn :
                  e \in DOMAIN world' /\ world'[e] = world[e]
            /\ score' = score]_vars

\* Two spawned enemies exist, at the one sampled point inside both ranges.
C9_Witness ==
    /\ Cardinality(Enemies(world)) = 2
    /\ \A e \in Enemies(world) : world[e].translation = Vec2(0, Px(-195))

(***************************************************************************)
(* C10.  One run of move_pacman sets each axis of the player's position    *)
(* to clamp(old + direction * 500 * (1/60), lower, upper) with direction   *)
(* in {-1, 0, 1}, the horizontal bounds being -405 and 405; holding only   *)
(* Right moves x by 500/60 when that stays within the bounds.              *)
(***************************************************************************)
\* v held between lo and hi.
Between(v, lo, hi) == IF v < lo THEN lo ELSE IF v > hi THEN hi ELSE v

\* 500 * (1/60) pixels, in model units.
OneStep == (Px(500)) \div 60

C10_MoveThenClamp ==
    [][/\ \E dx \in {-1, 0, 1}, dy \in {-1, 0, 1} :
            /\ Player'.translation.x =
                  Between(Player.translation.x + dx * OneStep, Px(-405), Px(405))
            /\ Player'.translation.y =
                  Between(Player.translation.y + dy * OneStep, bottom_bound, up_bound)
       /\ Player'.translation = new_pacman_position(Player.translation, {"Right"}) =>
            /\ Player'.translation.x =
                  Between(Player.translation.x + OneStep, Px(-405), Px(405))
            /\ Player.translation.x = 0 => Player'.translation.x = OneStep
            /\ Player'.translation.y = Player.translation.y]_vars

\* A move that would have passed the right bound landed on it.
C10_Witness ==
    /\ Player.translation.x = Px(405)
    /\ events_b > 0

(***************************************************************************)
(* C11.  A run of update_scoreboard sets the displayed text to the decimal *)
(* representation of the current score (digits only, no leading zero, of   *)
(* value the score) and changes nothing else, the score included; a run    *)
(* that finds the text already showing the score leaves the same string.   *)
(***************************************************************************)
DigitValue ==
    "0" :> 0 @@ "1" :> 1 @@ "2" :> 2 @@ "3" :> 3 @@ "4" :> 4 @@
    "5" :> 5 @@ "6" :> 6 @@ "7" :> 7 @@ "8" :> 8 @@ "9" :> 9

\* t is a decimal numeral: digits only, no leading zero.
IsDecimal(t) ==
    /\ Len(t) >= 1
    /\ \A i \in 1..Len(t) : t[i] \in DOMAIN DigitValue
    /\ Len(t) > 1 => t[1] # "0"

\* The number a string of digits denotes.
RECURSIVE DecimalValue(_)
DecimalValue(t) ==
    IF t = <<>> THEN 0
    ELSE 10 * DecimalValue(SubSeq(t, 1, Len(t) - 1)) + DigitValue[t[Len(t)]]

C11_ScoreboardShowsScore ==
    [][Runs("update_scoreboard") =>
          /\ IsDecimal(text')
          /\ DecimalValue(text') = score
          /\ (IsDecimal(text) /\ DecimalValue(text) = score) => text' = text
          /\ UNCHANGED <<world, next_entity, score, events_a, events_b, unread,
                         audio_queue, commands, panicked, sched, ticks>>]_vars

\* The second frame in a row has shown a score of three digits: the event
\* buffers, both filled at the start, are empty from the second frame on.
C11_Witness ==
    /\ "update_scoreboard" \in ran
    /\ events_a = 0
    /\ events_b = 0
    /\ score >= 100
    /\ Len(text) = 3

(***************************************************************************)
(* C12.  Within every physics tick each of move_pacman, apply_velocity,    *)
(* check_for_collisions and play_collision_sound runs exactly once;        *)
(* move_pacman and apply_velocity have both finished when                  *)
(* check_for_collisions starts, and check_for_collisions has finished      *)
(* when play_collision_sound starts.  So the overlap test counts the       *)
(* overlaps at the position this tick's move_pacman left, and the events   *)
(* play_collision_sound finds unread are not touched between the two.      *)
(***************************************************************************)
\* This step begins a physics tick.
TickBegins == ticks' = ticks + 1
\* This step ends a pass or a frame.
PassOver == sched # {} /\ (sched' # sched \/ ticks' # ticks \/ (ran # {} /\ ran' = {}))

C12_TickOrder ==
    [][/\ TickBegins => PhysicsSystems \subseteq sched' /\ ran' = {}
       /\ PassOver => ran = sched
       /\ ~PassOver /\ sched # {} =>
            /\ ran \subseteq ran' /\ ran' \subseteq sched
            /\ Cardinality(ran' \ ran) = 1
       /\ Player'.translation # Player.translation => Runs("move_pacman")
       /\ events_b' > events_b => Runs("check_for_collisions")
       /\ audio_queue' > audio_queue => Runs("play_collision_sound")
       /\ Runs("check_for_collisions") =>
            /\ {"move_pacman", "apply_velocity"} \subseteq ran
            /\ events_b' - events_b = Cardinality(OverlappingColliders)
       /\ Runs("play_collision_sound") => "check_for_collisions" \in ran
       /\ ~Runs("check_for_collisions") /\ ~Runs("play_collision_sound") =>
            unread' = unread]_vars

\* The four systems have all run in the second tick, the player moved in
\* both ticks.
C12_Witness ==
    /\ ticks = 2
    /\ PhysicsSystems \subseteq ran
    /\ Player.translation = Vec2(2 * OneStep, Px(-240) + 2 * OneStep)

(***************************************************************************)
(* C13.  A collision event is pending for play_collision_sound only from   *)
(* the check_for_collisions that sent it to the play_collision_sound of    *)
(* the same tick: in every state where check_for_collisions has not run    *)
(* in the current pass, or play_collision_sound has, the reader has no     *)
(* unread event.  So no event is left over when check_for_collisions       *)
(* starts, and none is found by the play_collision_sound of a later tick.  *)
(***************************************************************************)
C13_NoLeftoverEvent ==
    ("check_for_collisions" \notin ran \/ "play_collision_sound" \in ran) => unread = 0

\* check_for_collisions is about to start in the second tick: the events of
\* the first tick are still in the buffers, and all of them are read.
C13_Witness ==
    /\ ticks = 2
    /\ {"move_pacman", "apply_velocity"} \subseteq ran
    /\ "check_for_collisions" \notin ran
    /\ events_a + events_b > 0
    /\ unread = 0

(***************************************************************************)
(* C14.  A run of check_for_collisions with the player's box overlapping   *)
(* a wall's box sends one event for each overlapping wall, raises the      *)
(* score only by the number of overlapping enemies (not at all when there  *)
(* is none) and queues the despawn of no wall and of no enemy that does    *)
(* not overlap the player; the end of the pass then keeps every wall and   *)
(* every such enemy as it was.                                             *)
(***************************************************************************)
OverlappingWalls == {e \in Walls(world) : Overlaps(Player, world[e])}

C14_WallCollision ==
    [][/\ Runs("check_for_collisions") /\ OverlappingWalls # {} =>
            /\ events_b' - events_b =
                  Cardinality(OverlappingWalls)
                  + Cardinality(OverlappingColliders \ OverlappingWalls)
            /\ events_b' - events_b >= Cardinality(OverlappingWalls)
            /\ OverlappingEnemies = {} => score' = score
            /\ score' - score = Cardinality(OverlappingEnemies)
            /\ commands'.despawn \cap Walls(world) = {}
            /\ (commands'.despawn \ commands.despawn) \subseteq OverlappingEnemies
            /\ world' = world
       /\ PassEnds =>
            /\ commands.despawn \cap Walls(world) = {}
            /\ \A e \in Walls(world) \cup (Enemies(world) \ commands.despawn) :
                  e \in DOMAIN world' /\ world'[e] = world[e]]_vars

\* check_for_collisions has run with the player in the bottom wall and an
\* enemy elsewhere: two events (the wall's and the player's own), no score,
\* no despawn.
C14_Witness ==
    /\ "check_for_collisions" \in ran
    /\ Overlaps(Player, world[WallEntity("Bottom")])
    /\ Enemies(world) # {}
    /\ unread = 2
    /\ score = 0
    /\ commands.despawn = {}

(***************************************************************************)
(* C15.  The enemies spawned into the world so far, the enemies in the     *)
(* world and the score.  check_for_collisions raises the score at once     *)
(* and queues the despawn, and the enemy leaves the world when the pass    *)
(* ends.                                                                   *)
(***************************************************************************)
\* The enemies that have entered the world so far.
EverSpawned == next_entity - FirstEnemyEntity

C16_OpposingKeys ==
    [][Runs("move_pacman") => \A keys \in KeySets :
          Player'.translation = new_pacman_position(Player.translation, keys) =>
             /\ {"Left", "Right"} \subseteq keys =>
                   Player'.translation.x =
                      Between(Player.translation.x - OneStep, Px(-405), Px(405))
             /\ {"Down", "Up"} \subseteq keys =>
                   Player'.translation.y =
                      Between(Player.translation.y - OneStep, Px(-345), Px(345))
             /\ {"Left", "Right"} \cap keys = {} =>
                   Player'.translation.x = Player.translation.x
             /\ {"Down", "Up"} \cap keys = {} =>
                   Player'.translation.y = Player.translation.y]_vars

\* move_pacman has run in the first tick and the player is one step to the
\* left of and one step below its start, as with all four keys held.
C16_Witness ==
    /\ ticks = 1
    /\ "move_pacman" \in ran
    /\ Player.translation = Vec2(-OneStep, Px(-240) - OneStep)

(***************************************************************************)
(* C17.  In every reachable state the player's box is disjoint from the    *)
(* boxes of the left wall and the right wall, with a gap between them, so  *)
(* the test of check_for_collisions finds neither of them in collision     *)
(* and the events of a tick are those of the other overlapping colliders.  *)
(***************************************************************************)
SideWalls == {WallEntity("Left"), WallEntity("Right")}

C17_DisjointFromSideWalls ==
    /\ SideWalls \subseteq DOMAIN world
    /\ \A w \in SideWalls : ~Overlaps(Player, world[w])
    /\ 2 * Player.translation.x - Player.scale.x >
          2 * world[WallEntity("Left")].translation.x + world[WallEntity("Left")].scale.x
    /\ 2 * Player.translation.x + Player.scale.x <
          2 * world[WallEntity("Right")].translation.x - world[WallEntity("Right")].scale.x
    /\ SideWalls \cap colliding(world, PacmanEntity) = {}
    /\ events_b \in {0, Cardinality(OverlappingColliders \ SideWalls)}

\* The player is held on its left bound, level with the left wall, after a
\* tick that sent an event.
C17_Witness ==
    /\ Player.translation.x = Px(-405)
    /\ Abs(Player.translation.y) < Px(305)
    /\ events_b > 0

====
